---- MODULE Spec2Model ----
(***************************************************************************)
(* A model of the download orchestration core of vidybot:                  *)
(*   - RetryWithContext          (internal/utils/retry.go)                 *)
(*   - RateLimiter               (unnamed/part_001, rate limiter section)  *)
(*   - VideoDownloader.Download  (internal/downloader/downloader.go.bak)   *)
(*   - VideoDownloader.CleanupDownloads (same file)                        *)
(*   - BotHandler.handleText and processDownload (internal/utils/          *)
(*     command.go)                                                         *)
(* Each component has its own specification (SpecRetry, SpecMemory,        *)
(* SpecRedis, SpecRedisSeq, SpecDownload, SpecCleanup, SpecHandler); the   *)
(* variables of the other components stay at their initial values.         *)
(***************************************************************************)
EXTENDS Integers, Sequences, FiniteSets, TLC

(***************************************************************************)
(* Bounds of the model.                                                    *)
(***************************************************************************)
\* largest MaxRetries a policy is drawn with
MaxRetriesBound == 2
\* largest InitialWait a policy is drawn with (time units)
MaxInitialWait == 3
\* largest MaxWait a policy is drawn with (time units)
MaxMaxWait == 4

\* largest requestsMax the rate limiter is built with
MaxRequestsMax == 2
\* largest timeWindow (seconds) the rate limiter is built with
MaxWindowSecs == 2
\* clock ticks per second: time.Now() is finer than time.Now().Unix()
TicksPerSec == 2
\* the clock stops at this tick
MaxTime == 5
\* most Allow calls on one key between two resets of its counter
MaxSince == 3
\* largest maxAge CleanupDownloads is called with (ticks)
MaxAgeBound == 2
\* most files a run directory holds
MaxFiles == 1
\* most later Allow calls on a key whose decisions are compared
MaxLater == 2

\* Multiplier is a float64; the model draws it as a fraction <<num, den>>.
Multipliers == {<<1, 1>>, <<2, 1>>, <<3, 2>>, <<1, 2>>}

VARIABLES
    \* ---- RetryWithContext ----
    options,     \* *RetryOptions: MaxRetries, InitialWait, MaxWait, Multiplier
    rpc,         \* position in RetryWithContext
    attempt,     \* loop variable
    wait,        \* current backoff wait
    err,         \* last error of fn: 0 is nil, k > 0 the error of the k-th call
    ctxDone,     \* ctx.Done() is closed
    timerFired,  \* the channel of time.After(wait) holds a value
    wake,        \* the select case a parked goroutine was woken with
    retryResult, \* what RetryWithContext returned
    \* history of the run
    calls,       \* invocations of fn so far
    waits,       \* the waits handed to time.After, in order
    waitsDone,   \* waits that completed (timer case taken)
    cancelEarly, \* ctx was cancelled before any backoff timer had expired
    \* ---- RateLimiter ----
    rl,          \* enabled, requestsMax, timeWindow, userLimit, redis
    now,         \* the clock, in ticks
    counters,    \* rl.counters: key -> counter, or NoCounter
    lastAllow,   \* history: the last in-process Allow call
    since,       \* history: Allow calls on a key since its counter was set
    admits,      \* history: key -> times of its last admitted in-process calls
    mu,          \* rl.mu: the goroutine that holds it, or "free"
    gpc,         \* goroutine -> position in Allow / allowMemory
    gloc,        \* goroutine -> locals of allowMemory: identifier, now, c
    granted,     \* history: key -> calls admitted since its counter was set
    \* ---- RateLimiter, distributed store ----
    zset,        \* key -> the members of its sorted set (member = score)
    ttl,         \* key -> the tick its expiry falls on, or NoTTL
    cpc,         \* caller -> position in allowRedis
    cloc,        \* caller -> locals of allowRedis: key, now, windowStart
    cres,        \* caller -> history of its current or last call
    \* ---- VideoDownloader.Download ----
    deps,        \* names with a non-empty path in d.dependencyPaths
    dpc,         \* the stage Download is in
    step,        \* the next external invocation of the stage function
    result,      \* *DownloadResult
    subtitlePath,\* local of Download
    ret,         \* what Download returned
    files,       \* files of the run directory that Download tests for
    slog,        \* history: external invocations of the current stage
    failed,      \* history: the steps of the run that failed
    bothFailed,  \* history: downloadPrimaryVideo calls whose two transfers failed
    \* ---- VideoDownloader.CleanupDownloads ----
    dirs,        \* run directory -> its state under d.downloadDir
    sweep,       \* history: the last CleanupDownloads call
    run,         \* run directory -> the state of the run that made it
    \* ---- BotHandler ----
    hpc,         \* request -> position in handleText / processDownload
    requests,    \* request -> its document in the request collection
    downloadPath \* request -> the run directory of its Download, or NoPath

retryVars == <<options, rpc, attempt, wait, err, ctxDone, timerFired, wake,
               retryResult, calls, waits, waitsDone, cancelEarly>>
rateVars == <<rl, now>>
memVars == <<counters, lastAllow, since, admits, mu, gpc, gloc, granted>>
redisVars == <<zset, ttl, cpc, cloc, cres>>
dlVars == <<deps, dpc, step, result, subtitlePath, ret, files, slog, failed,
            bothFailed>>
cleanVars == <<dirs, sweep, run>>
handlerVars == <<hpc, requests, downloadPath>>

vars == <<retryVars, rateVars, memVars, redisVars, dlVars, cleanVars, handlerVars>>
nonRetryVars == <<rateVars, memVars, redisVars, dlVars, cleanVars, handlerVars>>

NoResult == [kind |-> "none", wraps |-> 0]

\* retry.go:10-16. The Logger field only logs.
RetryOptions ==
    [MaxRetries : 0..MaxRetriesBound,
     InitialWait : 0..MaxInitialWait,
     MaxWait : 1..MaxMaxWait,
     Multiplier : Multipliers]

\* retry.go:19-26, in seconds
DefaultRetryOptions ==
    [MaxRetries |-> 3, InitialWait |-> 1, MaxWait |-> 30,
     Multiplier |-> <<2, 1>>]

\* retry.go:106: time.Duration(float64(wait) * options.Multiplier) truncates
\* the product towards zero.
ScaleWait(w, o) == (w * o.Multiplier[1]) \div o.Multiplier[2]

\* retry.go:106-109
NextWait(w, o) ==
    IF ScaleWait(w, o) > o.MaxWait THEN o.MaxWait ELSE ScaleWait(w, o)

ReachedMaxOffByOne(a, o) == a + 1 >= o.MaxRetries
\* retry.go:78
ReachedMax(a, o) == a = o.MaxRetries

\* retry.go:63-70: the state on entering the loop.
RetryInit ==
    /\ rpc' = "call"
    /\ attempt' = 0
    /\ wait' = options.InitialWait
    /\ err' = 0
    /\ timerFired' = FALSE
    /\ wake' = "none"
    /\ retryResult' = NoResult
    /\ calls' = 0
    /\ waits' = <<>>
    /\ waitsDone' = 0

\* retry.go:62-70
RetryEnter ==
    /\ rpc = "idle"
    /\ RetryInit
    /\ UNCHANGED nonRetryVars
    /\ UNCHANGED <<options, ctxDone, cancelEarly>>

\* retry.go:72: fn returns, with an error (a fresh one) or nil.
FnReturn(fails) ==
    /\ calls' = calls + 1
    /\ err' = IF fails THEN calls + 1 ELSE 0
    /\ rpc' = "returned"
    /\ UNCHANGED <<options, attempt, wait, ctxDone, timerFired, wake,
                   retryResult, waits, waitsDone, cancelEarly>>

\* retry.go:72 with an arbitrary fn.
OpCall ==
    /\ rpc = "call"
    /\ dpc = "idle"
    /\ \E ok \in BOOLEAN : FnReturn(~ok)
    /\ UNCHANGED nonRetryVars

\* retry.go:73-104: from fn's return to the evaluation of time.After(wait).
AfterCall ==
    /\ rpc = "returned"
    /\ IF err = 0
       THEN /\ retryResult' = [kind |-> "ok", wraps |-> 0]
            /\ rpc' = "done"
            /\ UNCHANGED <<timerFired, waits>>
       ELSE IF ReachedMax(attempt, options)
       THEN /\ retryResult' = [kind |-> "maxretries", wraps |-> err]
            /\ rpc' = "done"
            /\ UNCHANGED <<timerFired, waits>>
       ELSE IF ctxDone
       THEN /\ retryResult' = [kind |-> "cancelled", wraps |-> 0]
            /\ rpc' = "done"
            /\ UNCHANGED <<timerFired, waits>>
       ELSE /\ rpc' = "select"
            /\ timerFired' = FALSE
            /\ waits' = Append(waits, wait)
            /\ UNCHANGED retryResult
    /\ UNCHANGED nonRetryVars
    /\ UNCHANGED <<options, attempt, wait, err, ctxDone, wake, calls,
                   waitsDone, cancelEarly>>

\* retry.go:104-109: the timer case of the select, then the loop increment.
TimerCase ==
    /\ wait' = NextWait(wait, options)
    /\ attempt' = attempt + 1
    /\ waitsDone' = waitsDone + 1
    /\ rpc' = "call"
    /\ UNCHANGED retryResult

\* retry.go:110-114: the ctx.Done() case of the select.
DoneCase ==
    /\ retryResult' = [kind |-> "cancelled", wraps |-> 0]
    /\ rpc' = "done"
    /\ UNCHANGED <<wait, attempt, waitsDone>>

\* retry.go:103: the select finds a ready case (any ready one may be taken)
\* or parks the goroutine.
SelectPoll ==
    /\ rpc = "select"
    /\ IF ~timerFired /\ ~ctxDone
       THEN /\ rpc' = "parked"
            /\ UNCHANGED <<wait, attempt, waitsDone, retryResult>>
       ELSE \E c \in {"timer", "ctx"} :
               /\ c = "timer" => timerFired
               /\ c = "ctx" => ctxDone
               /\ IF c = "timer" THEN TimerCase ELSE DoneCase
    /\ wake' = "none"
    /\ UNCHANGED nonRetryVars
    /\ UNCHANGED <<options, err, ctxDone, timerFired, calls, waits,
                   cancelEarly>>

\* retry.go:103: a parked select resumes with the case that woke it.
SelectResume ==
    /\ rpc = "parked"
    /\ wake # "none"
    /\ IF wake = "timer" THEN TimerCase ELSE DoneCase
    /\ wake' = "none"
    /\ UNCHANGED nonRetryVars
    /\ UNCHANGED <<options, err, ctxDone, timerFired, calls, waits,
                   cancelEarly>>

\* The runtime timer of time.After(wait) expires (retry.go:104).
TimerFire ==
    /\ rpc \in {"select", "parked"}
    /\ ~timerFired
    /\ timerFired' = TRUE
    /\ wake' = IF rpc = "parked" /\ wake = "none" THEN "timer" ELSE wake
    /\ UNCHANGED nonRetryVars
    /\ UNCHANGED <<options, rpc, attempt, wait, err, ctxDone, retryResult,
                   calls, waits, waitsDone, cancelEarly>>

\* The caller cancels ctx (retry.go:87, 110 observe it).
Cancel ==
    /\ ~ctxDone
    /\ IF dpc = "idle" THEN rpc # "done" ELSE dpc # "returned"
    /\ ctxDone' = TRUE
    /\ wake' = IF rpc = "parked" /\ wake = "none" THEN "ctx" ELSE wake
    /\ cancelEarly' = (waitsDone = 0 /\ ~timerFired)
    /\ UNCHANGED nonRetryVars
    /\ UNCHANGED <<options, rpc, attempt, wait, err, timerFired, retryResult,
                   calls, waits, waitsDone>>

InitRetryVars ==
    /\ rpc = "idle"
    /\ attempt = 0
    /\ wait = 0
    /\ err = 0
    /\ ctxDone = FALSE
    /\ timerFired = FALSE
    /\ wake = "none"
    /\ retryResult = NoResult
    /\ calls = 0
    /\ waits = <<>>
    /\ waitsDone = 0
    /\ cancelEarly = FALSE

(***************************************************************************)
(* RateLimiter (unnamed/part_001:468-617)                                  *)
(***************************************************************************)
Ids == {"u1", "u2"}
\* part_001:505-507: the counter keys are the identifiers and "global"
Keys == Ids \cup {"global"}
Callers == {"c1", "c2"}
\* the identifiers the concurrent callers of the distributed limiter use
RedisIds == {"u1"}

NoCounter == [count |-> 0, timestamp |-> -1]
NoLocals == [key |-> "none", t |-> 0, c |-> NoCounter, res |-> FALSE]
NoCall == [key |-> "none"]
NoTTL == -1

\* part_001:486-496: the fields NewRateLimiter sets; redis is
\* redisClient != nil.
RateLimiters ==
    [enabled : BOOLEAN,
     requestsMax : 0..MaxRequestsMax,
     timeWindow : 1..MaxWindowSecs,
     userLimit : BOOLEAN,
     redis : BOOLEAN]

\* part_001:490: rl.timeWindow, in clock ticks
WindowTicks == rl.timeWindow * TicksPerSec

DisabledNever == FALSE
\* part_001:500: !rl.enabled
Disabled == ~rl.enabled

\* part_001:504-507
Identifier(id) == IF rl.userLimit THEN id ELSE "global"

WindowPassedReversed(t, c) == c.timestamp - t > WindowTicks
\* part_001:566 and 593: now.Sub(c.timestamp) > rl.timeWindow
WindowPassed(t, c) == t - c.timestamp > WindowTicks

LimitExceededOffByOne(c) == c.count > rl.requestsMax
\* part_001:575
LimitExceeded(c) == c.count >= rl.requestsMax

allowMemoryRefreshing(c, t) ==
    IF c = NoCounter \/ WindowPassed(t, c)
    THEN [ok |-> TRUE, c |-> [count |-> 1, timestamp |-> t]]
    ELSE IF LimitExceeded(c)
    THEN [ok |-> FALSE, c |-> c]
    ELSE [ok |-> TRUE, c |-> [count |-> c.count + 1, timestamp |-> t]]
\* part_001:562-583: the decision of allowMemory on counter c at time t and
\* the counter it stores.
allowMemory(c, t) ==
    IF c = NoCounter \/ WindowPassed(t, c)
    THEN [ok |-> TRUE, c |-> [count |-> 1, timestamp |-> t]]
    ELSE IF LimitExceeded(c)
    THEN [ok |-> FALSE, c |-> c]
    ELSE [ok |-> TRUE, c |-> [c EXCEPT !.count = @ + 1]]

\* the times of the last requestsMax+1 admitted calls, with one at t added
Admitted(seq, t) ==
    IF Len(seq) <= rl.requestsMax
    THEN Append(seq, t)
    ELSE Append(Tail(seq), t)

\* part_001:499-516 with redisClient == nil, allowMemory under rl.mu.
Allow(id) ==
    /\ ~rl.redis
    /\ since[Identifier(id)] < MaxSince
          \/ WindowPassed(now, counters[Identifier(id)])
    /\ LET key == Identifier(id)
           r == allowMemory(counters[key], now)
           reset == counters[key] = NoCounter \/ WindowPassed(now, counters[key])
       IN  IF Disabled
           THEN /\ lastAllow' = [key |-> id, t |-> now, res |-> TRUE,
                                 pre |-> counters[id], post |-> counters[id],
                                 k |-> 0]
                /\ UNCHANGED <<counters, since, admits>>
           ELSE /\ counters' = [counters EXCEPT ![key] = r.c]
                /\ since' = [since EXCEPT ![key] = IF reset THEN 1 ELSE @ + 1]
                /\ lastAllow' = [key |-> key, t |-> now, res |-> r.ok,
                                 pre |-> counters[key], post |-> r.c,
                                 k |-> since'[key]]
                /\ admits' = IF r.ok
                             THEN [admits EXCEPT ![key] = Admitted(@, now)]
                             ELSE admits
    /\ UNCHANGED <<mu, gpc, gloc, granted>>
    /\ UNCHANGED <<rateVars, retryVars, redisVars, dlVars, cleanVars, handlerVars>>

ExpiredAlways(t, c) == TRUE
\* part_001:592: now.Sub(c.timestamp) > rl.timeWindow
Expired(t, c) == WindowPassed(t, c)

\* part_001:591-595: the map after the loop that deletes the expired counters
WithoutExpired(cs, t) ==
    [key \in Keys |->
        IF cs[key] # NoCounter /\ Expired(t, cs[key])
        THEN NoCounter
        ELSE cs[key]]

\* part_001:587-597, run by the ticker of StartCleanupScheduler (600-616).
CleanupExpiredCounters ==
    /\ rl.enabled
    /\ ~rl.redis
    /\ counters' = WithoutExpired(counters, now)
    /\ UNCHANGED <<lastAllow, since, admits, mu, gpc, gloc, granted>>
    /\ UNCHANGED <<rateVars, retryVars, redisVars, dlVars, cleanVars, handlerVars>>

(***************************************************************************)
(* RateLimiter.allowRedis (unnamed/part_001:519-555).  A sorted set whose  *)
(* members equal their scores is the set of those scores.  A backend call  *)
(* that returns an error may or may not have been applied by the server.   *)
(***************************************************************************)
\* time.Now().Unix(): whole seconds (part_001:521)
Unix(t) == t \div TicksPerSec

\* ZREMRANGEBYSCORE key 0 windowStart (part_001:525): both ends inclusive
ZRemRangeByScore(members, max) == {m \in members : ~(0 <= m /\ m <= max)}

\* a key whose set is empty does not exist and holds no expiry
Normal(z, t) == [key \in Keys |-> IF z[key] = {} THEN NoTTL ELSE t[key]]

FailClosed == FALSE
\* part_001:527, 534, 546: what Allow returns when a backend call failed
FailOpen == TRUE

\* what a finished call leaves in cres
Returned(c, allowed, error, step_, logs) ==
    [cres EXCEPT ![c].ret = IF allowed THEN "true" ELSE "false",
                 ![c].err = error,
                 ![c].failed = IF step_ = "none" THEN @ ELSE @ \cup {step_},
                 ![c].logged = @ \cup logs]

\* part_001:499-522: Allow with redisClient != nil, up to the first backend
\* call.
RedisBegin(c, id) ==
    /\ rl.redis
    /\ cpc[c] = "idle"
    /\ IF Disabled
       THEN /\ cres' = [cres EXCEPT ![c] =
                          [key |-> id, ret |-> "true", err |-> FALSE,
                           failed |-> {}, logged |-> {}, count |-> -1,
                           counted |-> {}]]
            /\ UNCHANGED <<cpc, cloc>>
       ELSE /\ cpc' = [cpc EXCEPT ![c] = "zrem"]
            /\ cloc' = [cloc EXCEPT ![c] =
                          [key |-> Identifier(id), now |-> Unix(now),
                           windowStart |-> Unix(now) - rl.timeWindow]]
            /\ cres' = [cres EXCEPT ![c] =
                          [key |-> Identifier(id), ret |-> "pending",
                           err |-> FALSE, failed |-> {}, logged |-> {},
                           count |-> -1, counted |-> {}]]
    /\ UNCHANGED <<zset, ttl>>
    /\ UNCHANGED <<rateVars, retryVars, memVars, dlVars, cleanVars, handlerVars>>

\* part_001:525-528
ZRem(c) ==
    /\ cpc[c] = "zrem"
    /\ \E ok \in BOOLEAN, applied \in BOOLEAN :
          /\ ok => applied
          /\ LET z == IF applied
                      THEN [zset EXCEPT ![cloc[c].key] =
                              ZRemRangeByScore(@, cloc[c].windowStart)]
                      ELSE zset
             IN  /\ zset' = z
                 /\ ttl' = Normal(z, ttl)
          /\ IF ok
             THEN /\ cpc' = [cpc EXCEPT ![c] = "zcard"]
                  /\ UNCHANGED cres
             ELSE /\ cpc' = [cpc EXCEPT ![c] = "idle"]
                  /\ cres' = Returned(c, FailOpen, TRUE, "zrem", {"zrem"})
    /\ UNCHANGED cloc
    /\ UNCHANGED <<rateVars, retryVars, memVars, dlVars, cleanVars, handlerVars>>

\* part_001:531-541
ZCard(c) ==
    /\ cpc[c] = "zcard"
    /\ \E ok \in BOOLEAN :
          LET count == Cardinality(zset[cloc[c].key])
          IN  IF ~ok
              THEN /\ cpc' = [cpc EXCEPT ![c] = "idle"]
                   /\ cres' = Returned(c, FailOpen, TRUE, "zcard", {"zcard"})
              ELSE IF count >= rl.requestsMax
              THEN /\ cpc' = [cpc EXCEPT ![c] = "idle"]
                   /\ cres' = [Returned(c, FALSE, FALSE, "none", {"exceeded"})
                                 EXCEPT ![c].count = count,
                                        ![c].counted = zset[cloc[c].key]]
              ELSE /\ cpc' = [cpc EXCEPT ![c] = "zadd"]
                   /\ cres' = [cres EXCEPT ![c].count = count,
                                           ![c].counted = zset[cloc[c].key]]
    /\ UNCHANGED <<zset, ttl, cloc>>
    /\ UNCHANGED <<rateVars, retryVars, memVars, dlVars, cleanVars, handlerVars>>

\* part_001:544-547: ZADD key now now
ZAdd(c) ==
    /\ cpc[c] = "zadd"
    /\ \E ok \in BOOLEAN, applied \in BOOLEAN :
          /\ ok => applied
          /\ zset' = IF applied
                     THEN [zset EXCEPT ![cloc[c].key] = @ \cup {cloc[c].now}]
                     ELSE zset
          /\ IF ok
             THEN /\ cpc' = [cpc EXCEPT ![c] = "expire"]
                  /\ UNCHANGED cres
             ELSE /\ cpc' = [cpc EXCEPT ![c] = "idle"]
                  /\ cres' = Returned(c, FailOpen, TRUE, "zadd", {"zadd"})
    /\ UNCHANGED <<ttl, cloc>>
    /\ UNCHANGED <<rateVars, retryVars, memVars, dlVars, cleanVars, handlerVars>>

\* part_001:550-554: EXPIRE key timeWindow, then return true, nil
Expire(c) ==
    /\ cpc[c] = "expire"
    /\ \E ok \in BOOLEAN, applied \in BOOLEAN :
          /\ ok => applied
          /\ ttl' = IF applied /\ zset[cloc[c].key] # {}
                    THEN [ttl EXCEPT ![cloc[c].key] = now + WindowTicks]
                    ELSE ttl
          /\ cres' = IF ok
                     THEN Returned(c, TRUE, FALSE, "none", {})
                     ELSE Returned(c, TRUE, FALSE, "expire", {"expire"})
    /\ cpc' = [cpc EXCEPT ![c] = "idle"]
    /\ UNCHANGED <<zset, cloc>>
    /\ UNCHANGED <<rateVars, retryVars, memVars, dlVars, cleanVars, handlerVars>>

(***************************************************************************)
(* VideoDownloader.Download (internal/downloader/downloader.go.bak)        *)
(***************************************************************************)
\* the logical names of d.dependencyPaths (downloader.go.bak:232, 303, 333,
\* 537)
Executables == {"yt-dlp", "aria2c", "ffmpeg", "ffprobe"}

\* downloader.go.bak:27-37 and 129. FileSize and Error are not modelled: no
\* decision of Download reads them.
EmptyResult ==
    [VideoPath |-> "", VideoWithSubPath |-> "", AudioPath |-> "",
     SubtitlePath |-> "", HasSubtitle |-> FALSE, Duration |-> 0,
     ThumbnailPath |-> ""]

NotReturned == [kind |-> "none"]

\* exec.CommandContext(ctx, ...).CombinedOutput(): a command whose context is
\* done does not succeed.
CanSucceed(ok) == ok => ~ctxDone

Logged(tool, ok) == Append(slog, [tool |-> tool, ok |-> ok])

\* a stage of Download starts: RetryWithContext is entered with the stage
\* function
StartStage(stage, first) ==
    /\ dpc' = stage
    /\ step' = first
    /\ slog' = <<>>
    /\ RetryInit
    /\ UNCHANGED <<options, ctxDone, cancelEarly>>

StageOverEarly == rpc \in {"done", "select", "parked"}
\* downloader.go.bak:133-137, 150-154, 168-175, 184-188, 198-202: Download
\* goes on when the stage's RetryWithContext has returned
StageOver == rpc = "done"

\* the error of the stage RetryWithContext has just run, if any
StageFailed == retryResult.kind # "ok"

CriticalWithSubtitle(stage) == stage \in {"video", "subtitle"}
\* downloader.go.bak:137-139, 154-156, 175-177, 188-190, 202-204: the stages
\* whose error makes Download return it
Critical(stage) == stage = "video"

\* Download returns (nil, err)
ReturnError(stage) ==
    /\ ret' = [kind |-> "error", stage |-> stage, cause |-> retryResult.kind]
    /\ dpc' = "returned"

\* downloader.go.bak:113-135
DownloadStart ==
    /\ dpc = "idle"
    /\ rpc = "idle"
    /\ \E mkdirOk \in BOOLEAN :
          IF mkdirOk
          THEN /\ result' = EmptyResult
               /\ StartStage("thumb", "cmd")
               /\ UNCHANGED <<ret, failed>>
          ELSE /\ ret' = [kind |-> "error", stage |-> "mkdir",
                          cause |-> "mkdir"]
               /\ dpc' = "returned"
               /\ failed' = failed \cup {"mkdir"}
               /\ UNCHANGED <<step, slog, result, retryVars>>
    /\ UNCHANGED <<deps, subtitlePath, files, bothFailed>>
    /\ UNCHANGED <<rateVars, memVars, redisVars, cleanVars, handlerVars>>

\* downloader.go.bak:231-299 (downloadThumbnail)
ThumbCmd ==
    /\ dpc = "thumb" /\ rpc = "call"
    /\ IF "yt-dlp" \notin deps
       THEN /\ FnReturn(TRUE)
            /\ UNCHANGED <<slog, files>>
       ELSE \E out \in {"fail", "nofiles", "unnamed", "ok"} :
               /\ CanSucceed(out # "fail")
               /\ slog' = Logged("thumbnail", out # "fail")
               /\ files' = IF out = "ok" THEN files \cup {"thumbnail.png"}
                           ELSE files
               /\ FnReturn(out \in {"fail", "nofiles"})
    /\ UNCHANGED <<deps, dpc, step, result, subtitlePath, ret, failed,
                   bothFailed>>
    /\ UNCHANGED <<rateVars, memVars, redisVars, cleanVars, handlerVars>>

\* downloader.go.bak:137-152
AfterThumb ==
    /\ dpc = "thumb" /\ StageOver
    /\ failed' = IF StageFailed THEN failed \cup {"thumb"} ELSE failed
    /\ IF StageFailed /\ Critical("thumb")
       THEN /\ ReturnError("thumb")
            /\ UNCHANGED <<result, step, slog, retryVars>>
       ELSE /\ result' = IF ~StageFailed /\ "thumbnail.png" \in files
                         THEN [result EXCEPT !.ThumbnailPath = "thumbnail.png"]
                         ELSE result
            /\ StartStage("video", "accel")
            /\ UNCHANGED ret
    /\ UNCHANGED <<deps, subtitlePath, files, bothFailed>>
    /\ UNCHANGED <<rateVars, memVars, redisVars, cleanVars, handlerVars>>

NeedsDirectAlways(accelOk) == TRUE
\* downloader.go.bak:351: the direct transfer is tried when the accelerated
\* one returned an error
NeedsDirect(accelOk) == ~accelOk

\* downloader.go.bak:331-353 (downloadPrimaryVideo, the accelerated transfer)
VideoAccel ==
    /\ dpc = "video" /\ rpc = "call" /\ step = "accel"
    /\ IF "yt-dlp" \notin deps \/ "aria2c" \notin deps
       THEN /\ FnReturn(TRUE)
            /\ UNCHANGED <<slog, step>>
       ELSE \E ok \in BOOLEAN :
               /\ CanSucceed(ok)
               /\ slog' = Logged("accel", ok)
               /\ IF NeedsDirect(ok)
                  THEN /\ step' = "direct"
                       /\ UNCHANGED retryVars
                  ELSE /\ FnReturn(FALSE)
                       /\ UNCHANGED step
    /\ UNCHANGED <<deps, dpc, result, subtitlePath, ret, files, failed,
                   bothFailed>>
    /\ UNCHANGED <<rateVars, memVars, redisVars, cleanVars, handlerVars>>

\* downloader.go.bak:354-372 (downloadPrimaryVideo, the direct transfer)
VideoDirect ==
    /\ dpc = "video" /\ rpc = "call" /\ step = "direct"
    /\ \E ok \in BOOLEAN :
          /\ CanSucceed(ok)
          /\ slog' = Logged("direct", ok)
          /\ bothFailed' = IF ok THEN bothFailed ELSE bothFailed + 1
          /\ FnReturn(~ok)
    /\ step' = "accel"
    /\ UNCHANGED <<deps, dpc, result, subtitlePath, ret, files, failed>>
    /\ UNCHANGED <<rateVars, memVars, redisVars, cleanVars, handlerVars>>

\* downloader.go.bak:154-173
AfterVideo ==
    /\ dpc = "video" /\ StageOver
    /\ failed' = IF StageFailed THEN failed \cup {"video"} ELSE failed
    /\ IF StageFailed /\ Critical("video")
       THEN /\ ReturnError("video")
            /\ UNCHANGED <<result, step, slog, subtitlePath, retryVars>>
       ELSE /\ result' = [result EXCEPT !.VideoPath = "video_base.mp4"]
            /\ subtitlePath' = ""
            /\ StartStage("subtitle", "list")
            /\ UNCHANGED ret
    /\ UNCHANGED <<deps, files, bothFailed>>
    /\ UNCHANGED <<rateVars, memVars, redisVars, cleanVars, handlerVars>>

\* downloader.go.bak:376-389 and 458-477 (downloadSubtitle up to and with
\* listAvailableSubtitles, whose error is only logged)
SubList ==
    /\ dpc = "subtitle" /\ rpc = "call" /\ step = "list"
    /\ IF "yt-dlp" \notin deps
       THEN /\ FnReturn(TRUE)
            /\ subtitlePath' = ""
            /\ UNCHANGED <<slog, step>>
       ELSE \E ok \in BOOLEAN :
               /\ CanSucceed(ok)
               /\ slog' = Logged("list-subs", ok)
               /\ step' = "fetch"
               /\ UNCHANGED <<subtitlePath, retryVars>>
    /\ UNCHANGED <<deps, dpc, result, ret, files, failed, bothFailed>>
    /\ UNCHANGED <<rateVars, memVars, redisVars, cleanVars, handlerVars>>

\* downloader.go.bak:391-455 (downloadSubtitle, the download and the search
\* for the file) and 169-173 (the assignment to subtitlePath)
SubFetch ==
    /\ dpc = "subtitle" /\ rpc = "call" /\ step = "fetch"
    /\ \E out \in {"fail", "none", "found", "missing"} :
          /\ CanSucceed(out # "fail")
          /\ slog' = Logged("subtitle", out # "fail")
          /\ subtitlePath' = IF out = "found" THEN "subtitle.srt" ELSE ""
          /\ FnReturn(out \in {"fail", "missing"})
    /\ step' = "list"
    /\ UNCHANGED <<deps, dpc, result, ret, files, failed, bothFailed>>
    /\ UNCHANGED <<rateVars, memVars, redisVars, cleanVars, handlerVars>>

SubtitleFoundIgnoringError(stageFailed, path) == TRUE
\* downloader.go.bak:175-178: err == nil and subtitlePath != ""
SubtitleFound(stageFailed, path) == ~stageFailed /\ path # ""

\* downloader.go.bak:175-186 and 196-200
AfterSubtitle ==
    /\ dpc = "subtitle" /\ StageOver
    /\ failed' = IF StageFailed THEN failed \cup {"subtitle"} ELSE failed
    /\ IF StageFailed /\ Critical("subtitle")
       THEN /\ ReturnError("subtitle")
            /\ UNCHANGED <<result, step, slog, retryVars>>
       ELSE IF SubtitleFound(StageFailed, subtitlePath)
       THEN /\ result' = [result EXCEPT !.SubtitlePath = subtitlePath,
                                        !.HasSubtitle = TRUE]
            /\ StartStage("embed", "cmd")
            /\ UNCHANGED ret
       ELSE /\ StartStage("audio", "cmd")
            /\ UNCHANGED <<result, ret>>
    /\ UNCHANGED <<deps, subtitlePath, files, bothFailed>>
    /\ UNCHANGED <<rateVars, memVars, redisVars, cleanVars, handlerVars>>

\* downloader.go.bak:480-505 (embedSubtitle)
EmbedCmd ==
    /\ dpc = "embed" /\ rpc = "call"
    /\ IF "ffmpeg" \notin deps
       THEN /\ FnReturn(TRUE)
            /\ UNCHANGED slog
       ELSE \E ok \in BOOLEAN :
               /\ CanSucceed(ok)
               /\ slog' = Logged("embed", ok)
               /\ FnReturn(~ok)
    /\ UNCHANGED <<deps, dpc, step, result, subtitlePath, ret, files, failed,
                   bothFailed>>
    /\ UNCHANGED <<rateVars, memVars, redisVars, cleanVars, handlerVars>>

\* downloader.go.bak:188-200
AfterEmbed ==
    /\ dpc = "embed" /\ StageOver
    /\ failed' = IF StageFailed THEN failed \cup {"embed"} ELSE failed
    /\ IF StageFailed /\ Critical("embed")
       THEN /\ ReturnError("embed")
            /\ UNCHANGED <<result, step, slog, retryVars>>
       ELSE /\ result' = IF StageFailed THEN result
                         ELSE [result EXCEPT
                                 !.VideoWithSubPath = "video_final.mp4"]
            /\ StartStage("audio", "cmd")
            /\ UNCHANGED ret
    /\ UNCHANGED <<deps, subtitlePath, files, bothFailed>>
    /\ UNCHANGED <<rateVars, memVars, redisVars, cleanVars, handlerVars>>

\* downloader.go.bak:508-533 (extractAudio)
AudioCmd ==
    /\ dpc = "audio" /\ rpc = "call"
    /\ IF "yt-dlp" \notin deps
       THEN /\ FnReturn(TRUE)
            /\ UNCHANGED slog
       ELSE \E ok \in BOOLEAN :
               /\ CanSucceed(ok)
               /\ slog' = Logged("audio", ok)
               /\ FnReturn(~ok)
    /\ UNCHANGED <<deps, dpc, step, result, subtitlePath, ret, files, failed,
                   bothFailed>>
    /\ UNCHANGED <<rateVars, memVars, redisVars, cleanVars, handlerVars>>

\* downloader.go.bak:202-207
AfterAudio ==
    /\ dpc = "audio" /\ StageOver
    /\ failed' = IF StageFailed THEN failed \cup {"audio"} ELSE failed
    /\ IF StageFailed /\ Critical("audio")
       THEN /\ ReturnError("audio")
            /\ UNCHANGED <<result, step, slog>>
       ELSE /\ result' = IF StageFailed THEN result
                         ELSE [result EXCEPT !.AudioPath = "audio.mp3"]
            /\ dpc' = "probe"
            /\ step' = "cmd"
            /\ slog' = <<>>
            /\ UNCHANGED ret
    /\ UNCHANGED <<deps, subtitlePath, files, bothFailed>>
    /\ UNCHANGED <<retryVars, rateVars, memVars, redisVars, cleanVars, handlerVars>>

\* downloader.go.bak:210 and 536-568 (getVideoDuration: exec.Command, with no
\* context and no retry)
DurationProbe ==
    /\ dpc = "probe"
    /\ IF "ffprobe" \notin deps
       THEN /\ result' = [result EXCEPT !.Duration = 0]
            /\ failed' = failed \cup {"duration"}
            /\ UNCHANGED slog
       ELSE \E ok \in BOOLEAN :
               /\ slog' = Logged("ffprobe", ok)
               /\ result' = [result EXCEPT !.Duration = IF ok THEN 1 ELSE 0]
               /\ failed' = IF ok THEN failed ELSE failed \cup {"duration"}
    /\ dpc' = "fallback"
    /\ UNCHANGED <<deps, step, subtitlePath, ret, files, bothFailed>>
    /\ UNCHANGED <<retryVars, rateVars, memVars, redisVars, cleanVars, handlerVars>>

\* downloader.go.bak:212-227 and 302-328 (extractThumbnail, with no retry)
ThumbFallback ==
    /\ dpc = "fallback"
    /\ IF result.ThumbnailPath = "" /\ result.VideoPath # ""
       THEN IF "ffmpeg" \notin deps
            THEN /\ failed' = failed \cup {"fallback"}
                 /\ ret' = [kind |-> "bundle", result |-> result]
                 /\ UNCHANGED <<result, files, slog>>
            ELSE \E out \in {"fail", "ok"} :
                    /\ CanSucceed(out # "fail")
                    /\ slog' = Logged("extract-thumbnail", out # "fail")
                    /\ files' = IF out = "ok"
                                THEN files \cup {"thumbnail.png"} ELSE files
                    /\ failed' = IF out = "fail"
                                 THEN failed \cup {"fallback"} ELSE failed
                    /\ result' = IF out # "fail" /\ "thumbnail.png" \in files'
                                 THEN [result EXCEPT
                                         !.ThumbnailPath = "thumbnail.png"]
                                 ELSE result
                    /\ ret' = [kind |-> "bundle", result |-> result']
       ELSE /\ ret' = [kind |-> "bundle", result |-> result]
            /\ UNCHANGED <<result, files, slog, failed>>
    /\ dpc' = "returned"
    /\ UNCHANGED <<deps, step, subtitlePath, bothFailed>>
    /\ UNCHANGED <<retryVars, rateVars, memVars, redisVars, cleanVars, handlerVars>>

(***************************************************************************)
(* VideoDownloader.CleanupDownloads (downloader.go.bak:570-626) and the    *)
(* operations on the run directories under d.downloadDir.                  *)
(***************************************************************************)
DirNames == {"d1", "d2"}
NoDir == [exists |-> FALSE, mtime |-> 0, nfiles |-> 0]
NoSweep == [at |-> -1]

\* what can go wrong with one entry during a sweep: entry.Info() (585-589),
\* isDirEmpty (593, 600-602) or os.RemoveAll (594-596) returns an error
Faults == {"none", "info", "empty", "remove"}

ModTimeNotAfter(mtime, t, maxAge) == mtime <= t - maxAge
\* downloader.go.bak:577 and 591: dirInfo.ModTime().Before(cutoffTime)
ModTimeBefore(mtime, t, maxAge) == mtime < t - maxAge

isDirEmptyAlways(nfiles) == TRUE
\* downloader.go.bak:614-626 with no error: Readdirnames(1) meets io.EOF
isDirEmpty(nfiles) == nfiles = 0

\* downloader.go.bak:571-604: a call can only fail where the sweep makes it:
\* Info on the entries ReadDir listed, isDirEmpty on the old ones among
\* them, RemoveAll on the empty ones among those
Reaches(e, t, maxAge, readOk, fault) ==
    /\ fault # "none" => readOk /\ e.exists
    /\ fault \in {"empty", "remove"} => ModTimeBefore(e.mtime, t, maxAge)
    /\ fault = "remove" => isDirEmpty(e.nfiles)

\* downloader.go.bak:584-604: whether the sweep removes entry e
Removes(e, t, maxAge, fault) ==
    /\ e.exists
    /\ fault # "info"
    /\ ModTimeBefore(e.mtime, t, maxAge)
    /\ fault # "empty"
    /\ isDirEmpty(e.nfiles)
    /\ fault # "remove"

\* downloader.go.bak:570-611
CleanupDownloads(maxAge) ==
    /\ sweep = NoSweep
    /\ \E readOk \in BOOLEAN, fault \in [DirNames -> Faults] :
          /\ \A d \in DirNames : Reaches(dirs[d], now, maxAge, readOk, fault[d])
          /\ dirs' = [d \in DirNames |->
                        IF readOk /\ Removes(dirs[d], now, maxAge, fault[d])
                        THEN NoDir ELSE dirs[d]]
          /\ sweep' = [at |-> now, maxAge |-> maxAge, pre |-> dirs,
                       readOk |-> readOk, fault |-> fault]
    /\ UNCHANGED run
    /\ UNCHANGED <<retryVars, rateVars, memVars, redisVars, dlVars,
                   handlerVars>>

\* downloader.go.bak:115-121: a run creates its directory
MkRunDir(d) ==
    /\ ~dirs[d].exists
    /\ run[d] # "running"
    /\ dirs' = [dirs EXCEPT ![d] = [exists |-> TRUE, mtime |-> now,
                                    nfiles |-> 0]]
    /\ run' = [run EXCEPT ![d] = "running"]
    /\ sweep' = NoSweep
    /\ UNCHANGED <<retryVars, rateVars, memVars, redisVars, dlVars,
                   handlerVars>>

\* downloader.go.bak:245, 344, 399, 486, 519: a stage writes an artifact
\* into the run directory
WriteFile(d) ==
    /\ run[d] = "running"
    /\ dirs[d].exists
    /\ dirs[d].nfiles < MaxFiles
    /\ dirs' = [dirs EXCEPT ![d].nfiles = @ + 1, ![d].mtime = now]
    /\ sweep' = NoSweep
    /\ UNCHANGED run
    /\ UNCHANGED <<retryVars, rateVars, memVars, redisVars, dlVars,
                   handlerVars>>

\* downloader.go.bak:155 and 227: the run returns, with an error or a bundle
RunEnds(d) ==
    /\ run[d] = "running"
    /\ \E ok \in BOOLEAN :
          run' = [run EXCEPT ![d] = IF ok THEN "bundle" ELSE "error"]
    /\ UNCHANGED <<dirs, sweep>>
    /\ UNCHANGED <<retryVars, rateVars, memVars, redisVars, dlVars,
                   handlerVars>>

\* command.go:1145-1161: the handler's delayed cleanup, an hour after the
\* run returned a bundle, removes an artifact
RemoveFile(d) ==
    /\ run[d] = "bundle"
    /\ dirs[d].exists
    /\ dirs[d].nfiles > 0
    /\ dirs' = [dirs EXCEPT ![d].nfiles = @ - 1, ![d].mtime = now]
    /\ sweep' = NoSweep
    /\ UNCHANGED run
    /\ UNCHANGED <<retryVars, rateVars, memVars, redisVars, dlVars,
                   handlerVars>>

\* command.go:1162-1165: the delayed cleanup removes the run directory with
\* whatever it still holds
RemoveRunDir(d) ==
    /\ run[d] = "bundle"
    /\ dirs[d].exists
    /\ dirs' = [dirs EXCEPT ![d] = NoDir]
    /\ sweep' = NoSweep
    /\ UNCHANGED run
    /\ UNCHANGED <<retryVars, rateVars, memVars, redisVars, dlVars,
                   handlerVars>>

(***************************************************************************)
(* The clock, shared by the rate limiter and the download root.            *)
(***************************************************************************)
\* time passes; the store drops the keys whose expiry has come, and the last
\* sweep of the download root is no longer the one just made
Tick ==
    /\ now < MaxTime
    /\ now' = now + 1
    /\ zset' = [key \in Keys |->
                  IF ttl[key] # NoTTL /\ now + 1 >= ttl[key]
                  THEN {} ELSE zset[key]]
    /\ ttl' = Normal(zset', ttl)
    /\ sweep' = NoSweep
    /\ UNCHANGED <<cpc, cloc, cres, dirs, run>>
    /\ UNCHANGED <<rl, memVars, retryVars, dlVars, handlerVars>>

(***************************************************************************)
(* BotHandler.handleText and BotHandler.processDownload (command.go).  A   *)
(* request is one text message; Download is seen through what it returns.  *)
(***************************************************************************)
ReqIds == {"r1", "r2", "r3"}
NoRequest == [status |-> "none", chat |-> "none"]
NoPath == -1

\* downloader.go.bak:115-116: the name of the run directory is the decimal
\* form of time.Now().UnixNano(), one name for each reading of the clock
DownloadID(t) == t

\* repositories.go:252-277 (UpdateDownloadRequestStatus): the update may fail,
\* and processDownload ignores its error
UpdateDownloadRequestStatus(r, status, ok) ==
    requests' = IF ok THEN [requests EXCEPT ![r].status = status] ELSE requests

\* command.go:793-873 (handleText): a text that is no URL is answered and
\* dropped; so is one whose user lookup or request insert fails; otherwise
\* the request is stored as pending (command.go:180-189) and processDownload
\* is started in a goroutine
handleText(r, chat) ==
    /\ hpc[r] = "none"
    /\ \E valid \in BOOLEAN, found \in BOOLEAN, created \in BOOLEAN :
          IF valid /\ found /\ created
          THEN /\ requests' = [requests EXCEPT ![r] =
                                 [status |-> "pending", chat |-> chat]]
               /\ hpc' = [hpc EXCEPT ![r] = "spawned"]
          ELSE /\ hpc' = [hpc EXCEPT ![r] = "answered"]
               /\ UNCHANGED requests
    /\ UNCHANGED downloadPath
    /\ UNCHANGED <<retryVars, rateVars, memVars, redisVars, dlVars, cleanVars>>

\* command.go:1041-1048: processDownload sets the status and calls Download,
\* which names its run directory after the clock (downloader.go.bak:115-121;
\* os.MkdirAll succeeds on a directory that exists)
processDownload(r) ==
    /\ hpc[r] = "spawned"
    /\ \E ok \in BOOLEAN : UpdateDownloadRequestStatus(r, "processing", ok)
    /\ hpc' = [hpc EXCEPT ![r] = "download"]
    /\ downloadPath' = [downloadPath EXCEPT ![r] = DownloadID(now)]
    /\ UNCHANGED <<retryVars, rateVars, memVars, redisVars, dlVars, cleanVars>>

\* command.go:1048-1075: Download returns; the status follows its result
DownloadReturned(r) ==
    /\ hpc[r] = "download"
    /\ \E bundle \in BOOLEAN, ok \in BOOLEAN :
          IF bundle
          THEN /\ UpdateDownloadRequestStatus(r, "completed", ok)
               /\ hpc' = [hpc EXCEPT ![r] = "sending"]
          ELSE /\ UpdateDownloadRequestStatus(r, "failed", ok)
               /\ hpc' = [hpc EXCEPT ![r] = "failed"]
    /\ UNCHANGED downloadPath
    /\ UNCHANGED <<retryVars, rateVars, memVars, redisVars, dlVars, cleanVars>>

\* command.go:1077-1167: the files are sent and the delayed cleanup is
\* scheduled
FilesSent(r) ==
    /\ hpc[r] = "sending"
    /\ hpc' = [hpc EXCEPT ![r] = "sent"]
    /\ UNCHANGED <<requests, downloadPath>>
    /\ UNCHANGED <<retryVars, rateVars, memVars, redisVars, dlVars, cleanVars>>

InitHandlerVars ==
    /\ hpc = [r \in ReqIds |-> "none"]
    /\ requests = [r \in ReqIds |-> NoRequest]
    /\ downloadPath = [r \in ReqIds |-> NoPath]

(***************************************************************************)
(* The initial values of each component; a specification starts the        *)
(* components it does not exercise in these states and leaves them there.  *)
(***************************************************************************)
InitRateVars ==
    /\ now = 0
    /\ rl \in RateLimiters

InitMemVars ==
    /\ counters = [key \in Keys |-> NoCounter]
    /\ lastAllow = NoCall
    /\ since = [key \in Keys |-> 0]
    /\ admits = [key \in Keys |-> <<>>]
    /\ mu = "free"
    /\ gpc = [g \in Callers |-> "idle"]
    /\ gloc = [g \in Callers |-> NoLocals]
    /\ granted = [key \in Keys |-> 0]

InitRedisVars ==
    /\ zset = [key \in Keys |-> {}]
    /\ ttl = [key \in Keys |-> NoTTL]
    /\ cpc = [c \in Callers |-> "idle"]
    /\ cloc = [c \in Callers |-> [key |-> "none", now |-> 0, windowStart |-> 0]]
    /\ cres = [c \in Callers |-> [key |-> "none"]]

InitDlVars ==
    /\ dpc = "idle"
    /\ step = "none"
    /\ result = EmptyResult
    /\ subtitlePath = ""
    /\ ret = NotReturned
    /\ files = {}
    /\ slog = <<>>
    /\ failed = {}
    /\ bothFailed = 0

InitCleanVars ==
    /\ dirs = [d \in DirNames |-> NoDir]
    /\ sweep = NoSweep
    /\ run = [d \in DirNames |-> "none"]

\* the components a specification does not exercise
IdleDl == InitDlVars /\ deps = Executables
IdleRetry == InitRetryVars /\ options = DefaultRetryOptions
IdleRate == now = 0 /\ rl = [enabled |-> TRUE, requestsMax |-> 1,
                             timeWindow |-> 1, userLimit |-> TRUE,
                             redis |-> FALSE]


InitRetry ==
    /\ options \in RetryOptions
    /\ InitRetryVars
    /\ IdleRate /\ InitMemVars /\ InitRedisVars /\ IdleDl /\ InitCleanVars
    /\ InitHandlerVars

NextRetry ==
    \/ RetryEnter
    \/ OpCall
    \/ AfterCall
    \/ SelectPoll
    \/ SelectResume
    \/ TimerFire
    \/ Cancel

SpecRetry == InitRetry /\ [][NextRetry]_vars

(***************************************************************************)
(* The in-process rate limiter: Allow calls by any identifiers, the        *)
(* cleanup ticker and the clock.                                           *)
(***************************************************************************)
InitMemory ==
    /\ InitRateVars
    /\ ~rl.redis
    /\ InitMemVars
    /\ IdleRetry /\ InitRedisVars /\ IdleDl /\ InitCleanVars
    /\ InitHandlerVars

NextMemory ==
    \/ \E id \in Ids : Allow(id)
    \/ CleanupExpiredCounters
    \/ Tick

SpecMemory == InitMemory /\ [][NextMemory]_vars

(***************************************************************************)
(* One run of Download: NewVideoDownloader(dir, logger, maxRetries, paths)  *)
(* with any maxRetries and any set of resolved executables, under a        *)
(* context that may be cancelled at any moment.                            *)
(***************************************************************************)
\* downloader.go.bak:50-61
InitDownload ==
    /\ InitRetryVars
    /\ options \in {[DefaultRetryOptions EXCEPT !.MaxRetries = n] :
                        n \in 0..MaxRetriesBound}
    /\ InitDlVars
    /\ deps \in SUBSET Executables
    /\ IdleRate /\ InitMemVars /\ InitRedisVars /\ InitCleanVars
    /\ InitHandlerVars

NextDownload ==
    \/ DownloadStart
    \/ ThumbCmd
    \/ AfterThumb
    \/ VideoAccel
    \/ VideoDirect
    \/ AfterVideo
    \/ SubList
    \/ SubFetch
    \/ AfterSubtitle
    \/ EmbedCmd
    \/ AfterEmbed
    \/ AudioCmd
    \/ AfterAudio
    \/ DurationProbe
    \/ ThumbFallback
    \/ AfterCall
    \/ SelectPoll
    \/ SelectResume
    \/ TimerFire
    \/ Cancel

SpecDownload == InitDownload /\ [][NextDownload]_vars

(***************************************************************************)
(* The distributed rate limiter: concurrent Allow calls, each a sequence   *)
(* of backend calls, and the clock.                                        *)
(***************************************************************************)
InitRedis ==
    /\ InitRateVars
    /\ rl.redis
    /\ InitRedisVars
    /\ IdleRetry /\ InitMemVars /\ IdleDl /\ InitCleanVars
    /\ InitHandlerVars

NextRedis ==
    \/ \E c \in Callers, id \in RedisIds : RedisBegin(c, id)
    \/ \E c \in Callers : ZRem(c)
    \/ \E c \in Callers : ZCard(c)
    \/ \E c \in Callers : ZAdd(c)
    \/ \E c \in Callers : Expire(c)
    \/ Tick

SpecRedis == InitRedis /\ [][NextRedis]_vars

(***************************************************************************)
(* The download root: runs create directories and write into them, the     *)
(* handler removes artifacts, the clock advances and CleanupDownloads      *)
(* sweeps with any maxAge.                                                 *)
(***************************************************************************)
InitCleanup ==
    /\ InitCleanVars
    /\ IdleRetry /\ IdleRate /\ InitMemVars /\ InitRedisVars /\ IdleDl
    /\ InitHandlerVars

NextCleanup ==
    \/ \E d \in DirNames : MkRunDir(d)
    \/ \E d \in DirNames : WriteFile(d)
    \/ \E d \in DirNames : RunEnds(d)
    \/ \E d \in DirNames : RemoveFile(d)
    \/ \E d \in DirNames : RemoveRunDir(d)
    \/ \E maxAge \in 0..MaxAgeBound : CleanupDownloads(maxAge)
    \/ Tick

SpecCleanup == InitCleanup /\ [][NextCleanup]_vars

(***************************************************************************)
(* Claims about RetryWithContext (checked under SpecRetry).                *)
(***************************************************************************)
\* base^e for e >= 0
RECURSIVE Pow(_, _)
Pow(b, e) == IF e = 0 THEN 1 ELSE b * Pow(b, e - 1)

Min(a, b) == IF a <= b THEN a ELSE b

\* C1: with MaxRetries = n >= 0, an operation that fails on every call, under
\* a context that is never cancelled, is invoked exactly n+1 times and
\* RetryWithContext then returns the max-retries error wrapping the error of
\* the last call.
C1_ExhaustedAfterNPlusOneCalls ==
    (rpc = "done" /\ ~ctxDone /\ retryResult.kind # "ok")
        => /\ calls = options.MaxRetries + 1
           /\ retryResult = [kind |-> "maxretries", wraps |-> calls]
           /\ err = calls

C1_Witness ==
    /\ rpc = "done"
    /\ ~ctxDone
    /\ options.MaxRetries = MaxRetriesBound
    /\ retryResult.kind = "maxretries"
    /\ calls = MaxRetriesBound + 1

\* C2 (as claimed): for every policy, the wait before the k-th retry equals
\* min(InitialWait * Multiplier^(k-1), MaxWait); with Multiplier = num/den
\* both sides are multiplied by den^(k-1).
C2_WaitIsCappedPower ==
    \A k \in 1..Len(waits) :
        waits[k] * Pow(options.Multiplier[2], k - 1)
            = Min(options.InitialWait * Pow(options.Multiplier[1], k - 1),
                  options.MaxWait * Pow(options.Multiplier[2], k - 1))

\* C3 (as claimed): when ctx is cancelled before any backoff wait has
\* completed and the operation never succeeds, RetryWithContext returns the
\* context-cancelled error, whatever MaxRetries is.
C3_EarlyCancelGivesCancelled ==
    (rpc = "done" /\ cancelEarly /\ retryResult.kind # "ok")
        => retryResult.kind = "cancelled"


(***************************************************************************)
(* Claims about the in-process rate limiter (checked under SpecMemory).    *)
(***************************************************************************)
\* C4: in in-process mode with requestsMax = m >= 1, the k-th Allow call on
\* an identifier since its counter was created (all of them within the window
\* of the first) returns true exactly when k <= m.
C4_FirstMAdmittedThenDenied ==
    (lastAllow # NoCall /\ rl.enabled /\ ~rl.redis /\ rl.requestsMax >= 1)
        => /\ lastAllow.res = (lastAllow.k <= rl.requestsMax)
           /\ lastAllow.k >= 2
                 => lastAllow.t - lastAllow.pre.timestamp <= WindowTicks

C4_Witness ==
    /\ lastAllow # NoCall /\ rl.enabled /\ ~rl.redis
    /\ rl.requestsMax = MaxRequestsMax
    /\ lastAllow.k = MaxRequestsMax + 1
    /\ lastAllow.res = FALSE
    /\ lastAllow.t > lastAllow.pre.timestamp

\* C5: in in-process mode, an Allow call made after the window has elapsed
\* since the counter's timestamp returns true whatever the count was, and
\* leaves the counter at count 1 with the time of the call as its timestamp.
C5_CallAfterWindowResets ==
    (/\ lastAllow # NoCall /\ rl.enabled /\ ~rl.redis
     /\ lastAllow.pre # NoCounter
     /\ lastAllow.t - lastAllow.pre.timestamp > WindowTicks)
        => /\ lastAllow.res = TRUE
           /\ lastAllow.post = [count |-> 1, timestamp |-> lastAllow.t]

C5_Witness ==
    /\ lastAllow # NoCall /\ rl.enabled /\ ~rl.redis
    /\ lastAllow.pre # NoCounter
    /\ rl.requestsMax >= 1
    /\ lastAllow.pre.count = rl.requestsMax
    /\ lastAllow.t - lastAllow.pre.timestamp > WindowTicks
    /\ lastAllow.res = TRUE
    /\ counters[lastAllow.key] = [count |-> 1, timestamp |-> lastAllow.t]

(***************************************************************************)
(* Claims about the distributed rate limiter (checked under SpecRedis).    *)
(***************************************************************************)
Finished(c) == rl.enabled /\ cres[c].key # "none" /\ cres[c].ret # "pending"

\* C6: in distributed mode a call in which a backend call failed returns
\* true and the failure is logged; a call returns false only when it read the
\* count successfully and the count is at least requestsMax.
C6_BackendFailureFailsOpen ==
    \A c \in Callers :
        Finished(c) =>
            /\ cres[c].failed # {}
                  => cres[c].ret = "true" /\ cres[c].failed \subseteq cres[c].logged
            /\ cres[c].ret = "false"
                  => /\ cres[c].failed = {}
                     /\ cres[c].count >= rl.requestsMax

C6_Witness ==
    /\ \E c \in Callers :
          Finished(c) /\ cres[c].failed = {"zcard"} /\ cres[c].ret = "true"
    /\ \E c \in Callers :
          Finished(c) /\ cres[c].ret = "false" /\ rl.requestsMax >= 1

(***************************************************************************)
(* Claims about Download (checked under SpecDownload).                     *)
(***************************************************************************)
\* C7 (as claimed): Download returns an error only when the primary-video
\* stage failed; no failure of another step makes it return an error.
C7_OnlyVideoFailureIsAnError ==
    (dpc = "returned" /\ ret.kind = "error") => "video" \in failed

\* C7 (amended): Download returns an error exactly when creating the run
\* directory failed or the primary-video stage failed (its last invocation
\* failed both transfers, or an executable path it needs is missing); no
\* failure of any other step makes it return an error, and in every other
\* case it returns a bundle.
C7_ErrorOnlyFromMkdirOrVideo ==
    dpc = "returned" =>
        /\ ret.kind \in {"error", "bundle"}
        /\ ret.kind = "error" <=> failed \cap {"mkdir", "video"} # {}
        /\ (ret.kind = "error" /\ "video" \in failed)
              => \/ bothFailed > 0
                 \/ ~({"yt-dlp", "aria2c"} \subseteq deps)

C7_Witness ==
    /\ dpc = "returned"
    /\ ret.kind = "bundle"
    /\ {"thumb", "subtitle", "audio", "duration", "fallback"} \subseteq failed

\* C8 (as claimed): a run in which the accelerated and then the direct
\* transfer failed returns a terminal error and no bundle.
C8_BothFailedIsTerminal ==
    (dpc = "returned" /\ bothFailed >= 1) => ret.kind = "error"

\* the invocations of the primary-video stage: an accelerated transfer opens
\* each call of the stage function, and a direct transfer follows a failed
\* accelerated one and nothing else
VideoLogOrdered ==
    \A i \in 1..Len(slog) :
        /\ slog[i].tool \in {"accel", "direct"}
        /\ slog[i].tool = "direct"
              => i > 1 /\ slog[i - 1] = [tool |-> "accel", ok |-> FALSE]
        /\ slog[i].tool = "accel"
              => i = 1 \/ slog[i - 1] = [tool |-> "direct", ok |-> FALSE]
        /\ (slog[i] = [tool |-> "accel", ok |-> FALSE] /\ i < Len(slog))
              => slog[i + 1].tool = "direct"

\* C8 (amended): in each call of the primary-video stage function the
\* accelerated transfer is tried first and the direct one once, only after
\* the accelerated one failed; the stage function is retried, and a run in
\* which both transfers fail in every one of its MaxRetries+1 calls returns a
\* terminal error and no bundle.
C8_FallbackOnceAndExhaustionIsTerminal ==
    /\ (dpc = "video" \/ (dpc = "returned" /\ "video" \in failed))
          => VideoLogOrdered
    /\ (dpc = "returned" /\ bothFailed = options.MaxRetries + 1)
          => ret = [kind |-> "error", stage |-> "video",
                    cause |-> "maxretries"]

C8_Witness ==
    /\ dpc = "returned"
    /\ options.MaxRetries = MaxRetriesBound
    /\ bothFailed = MaxRetriesBound + 1
    /\ Len(slog) = 2 * (MaxRetriesBound + 1)
    /\ ret.kind = "error"

\* C9: a run whose subtitle stage fails while the primary-video stage
\* succeeded returns a bundle and no error, with HasSubtitle false,
\* SubtitlePath and VideoWithSubPath empty and VideoPath populated.
C9_SubtitleFailureDegradesBundle ==
    (dpc = "returned" /\ "subtitle" \in failed /\ "video" \notin failed)
        => /\ ret.kind = "bundle"
           /\ ret.result.HasSubtitle = FALSE
           /\ ret.result.SubtitlePath = ""
           /\ ret.result.VideoWithSubPath = ""
           /\ ret.result.VideoPath # ""

C9_Witness ==
    /\ dpc = "returned"
    /\ "subtitle" \in failed
    /\ ~ctxDone
    /\ "yt-dlp" \in deps
    /\ options.MaxRetries = MaxRetriesBound
    /\ ret.kind = "bundle"
    /\ ret.result.VideoPath = "video_base.mp4"
    /\ ret.result.HasSubtitle = FALSE

(***************************************************************************)
(* Claims about CleanupDownloads (checked under SpecCleanup).              *)
(***************************************************************************)
Swept == sweep # NoSweep
WasOld(d) == sweep.pre[d].mtime < sweep.at - sweep.maxAge
Gone(d) == sweep.pre[d].exists /\ ~dirs[d].exists

\* C10 (as claimed): a sweep removes every run directory older than maxAge
\* and none younger; an old directory stays only when its emptiness check
\* returned an error (or another call of the sweep on it failed).
C10_EveryOldDirectoryRemoved ==
    (Swept /\ sweep.readOk) =>
        \A d \in DirNames :
            sweep.pre[d].exists =>
                /\ (WasOld(d) /\ sweep.fault[d] = "none") => Gone(d)
                /\ ~WasOld(d) => ~Gone(d)

\* C10 (amended): a sweep removes exactly the run directories older than
\* maxAge that are empty (and on which no call of the sweep failed), and none
\* younger; an old directory that holds files, or whose emptiness check
\* returns an error, is left as it was.
C10_OldEmptyDirectoriesRemoved ==
    Swept =>
        \A d \in DirNames :
            sweep.pre[d].exists =>
                /\ Gone(d) <=> /\ sweep.readOk
                               /\ WasOld(d)
                               /\ sweep.pre[d].nfiles = 0
                               /\ sweep.fault[d] = "none"
                /\ ~Gone(d) => dirs[d] = sweep.pre[d]

C10_Witness ==
    /\ Swept /\ sweep.readOk
    /\ \E d, e \in DirNames :
          /\ Gone(d) /\ WasOld(d)
          /\ sweep.pre[e].exists /\ ~WasOld(e) /\ dirs[e].exists
          /\ sweep.pre[e].mtime < sweep.at

(***************************************************************************)
(* Claims about cancellation of a run (checked under SpecDownload).        *)
(***************************************************************************)
\* C11 (as claimed): when the caller's context is cancelled at any point of
\* a run, Download returns an error that identifies the cancellation (not a
\* bundle, and not the exhausted-retries or a tool-failure error).
C11_CancelledRunReturnsCancellation ==
    (dpc = "returned" /\ ctxDone /\ "mkdir" \notin failed)
        => /\ ret.kind = "error"
           /\ ret.cause = "cancelled"

(***************************************************************************)
(* The handler: text messages of any chats, each handled by handleText and *)
(* a processDownload goroutine.  No step of the handler calls Allow.       *)
(***************************************************************************)
InitHandler ==
    /\ InitHandlerVars
    /\ IdleRate /\ InitMemVars
    /\ IdleRetry /\ InitRedisVars /\ IdleDl /\ InitCleanVars

NextHandler ==
    \/ \E r \in ReqIds, chat \in Ids : handleText(r, chat)
    \/ \E r \in ReqIds : processDownload(r)
    \/ \E r \in ReqIds : DownloadReturned(r)
    \/ \E r \in ReqIds : FilesSent(r)

SpecHandler == InitHandler /\ [][NextHandler]_vars

\* C12 (as claimed): Download is started for a request only after Allow
\* returned true for the identifier of the request's chat.
C12_DownloadOnlyAfterAdmission ==
    \A r \in ReqIds :
        hpc[r] \in {"download", "sending", "sent", "failed"}
            => /\ lastAllow # NoCall
               /\ lastAllow.res = TRUE

NoCallInFlight == \A c \in Callers : cpc[c] = "idle"

NoBackendFailure ==
    \A c \in Callers : cres[c].key # "none" => cres[c].failed = {}

NextRedisSeq ==
    \/ \E c \in Callers, id \in RedisIds : NoCallInFlight /\ RedisBegin(c, id)
    \/ \E c \in Callers : ZRem(c) /\ NoBackendFailure'
    \/ \E c \in Callers : ZCard(c) /\ NoBackendFailure'
    \/ \E c \in Callers : ZAdd(c) /\ NoBackendFailure'
    \/ \E c \in Callers : Expire(c) /\ NoBackendFailure'
    \/ Tick

SpecRedisSeq == InitRedis /\ [][NextRedisSeq]_vars

\* C13 (as claimed): with sequential calls and no backend failure, every
\* admitted call adds a new marker to the identifier's set: the marker an
\* admitted call is about to add is not in the set yet, so that the marker
\* count grows with every admitted call.
C13_AdmittedCallAddsNewMarker ==
    \A c \in Callers :
        cpc[c] = "zadd" => cloc[c].now \notin zset[cloc[c].key]

(***************************************************************************)
(* Claims about concurrent calls of the distributed rate limiter (checked  *)
(* under SpecRedis).                                                       *)
(***************************************************************************)
\* C14 (as claimed): the backend operations of concurrent Allow calls for
\* one identifier never interleave so that more than requestsMax calls are
\* admitted within one window: the markers of a key that lie within one
\* window length, each added by an admitted call, are at most requestsMax.
C14_ConcurrentCallsStayWithinLimit ==
    rl.enabled =>
        \A key \in Keys : \A mk \in zset[key] :
            Cardinality({x \in zset[key] :
                           mk <= x /\ x < mk + rl.timeWindow})
                <= rl.requestsMax

\* C16 (as claimed), the distributed half: when a call decides from the count
\* of the marker set, every marker it counted stands for a request made no
\* longer ago than the window (in whole seconds, as the markers are).
C16_CountedRequestsWithinWindow ==
    \A c \in Callers :
        (rl.enabled /\ cres[c].key # "none" /\ cres[c].count >= 0)
            => \A mk \in cres[c].counted :
                  cloc[c].now - mk <= rl.timeWindow

(***************************************************************************)
(* Claims about the window of the in-process rate limiter (checked under   *)
(* SpecMemory).                                                            *)
(***************************************************************************)
\* the admitted calls of a key made since its counter's timestamp
SinceTimestamp(key) ==
    {i \in 1..Len(admits[key]) : admits[key][i] >= counters[key].timestamp}

\* C15 (as claimed): the in-process window is sliding: in every time span no
\* longer than the window at most requestsMax calls of an identifier are
\* admitted, so any requestsMax+1 consecutive admitted calls span more than
\* the window (requestsMax >= 1).
C15_SlidingWindow ==
    (rl.enabled /\ ~rl.redis /\ rl.requestsMax >= 1) =>
        \A key \in Keys :
            Len(admits[key]) = rl.requestsMax + 1
                => admits[key][rl.requestsMax + 1] - admits[key][1]
                       > WindowTicks

\* C15 (amended): the in-process window is fixed, starting at the call that
\* created or reset the counter: for requestsMax >= 1 the calls admitted
\* since the counter's timestamp are as many as its count, at most
\* requestsMax, and none is later than one window after the timestamp.
C15_FixedWindow ==
    (rl.enabled /\ ~rl.redis /\ rl.requestsMax >= 1) =>
        \A key \in Keys :
            counters[key] # NoCounter =>
                /\ Cardinality(SinceTimestamp(key)) = counters[key].count
                /\ counters[key].count <= rl.requestsMax
                /\ \A i \in SinceTimestamp(key) :
                      admits[key][i] - counters[key].timestamp <= WindowTicks

\* a span no longer than the window, across a reset, with more than
\* requestsMax admitted calls
C15_Witness ==
    /\ rl.enabled /\ ~rl.redis
    /\ rl.requestsMax = MaxRequestsMax
    /\ \E key \in Keys :
          /\ Len(admits[key]) = rl.requestsMax + 1
          /\ admits[key][rl.requestsMax + 1] - admits[key][1] <= WindowTicks
          /\ admits[key][1] < counters[key].timestamp
          /\ counters[key].count = rl.requestsMax

(***************************************************************************)
(* Claims about the stages of a run (checked under SpecDownload) and about *)
(* cancellation during a backoff wait (checked under SpecRetry).           *)
(***************************************************************************)
\* C18 (as claimed): when an executable path the primary-video stage needs
\* is absent, the stage function is invoked once and no backoff wait is
\* started.
C18_MissingExecutableNotRetried ==
    (dpc = "video" /\ ~({"yt-dlp", "aria2c"} \subseteq deps))
        => /\ calls <= 1
           /\ waits = <<>>

\* C19 (as claimed): once ctx is cancelled, a backoff wait never ends in
\* another invocation of the operation, however the cancellation and the
\* expiry of the timer interleave.
C19_NoAttemptAfterCancelledWait ==
    [][(ctxDone /\ rpc \in {"select", "parked"}) => rpc' # "call"]_vars

\* the stages of Download in the order of downloader.go.bak:130-225
StageOrder ==
    <<"thumb", "video", "subtitle", "embed", "audio", "probe", "fallback">>

Pos(stage) == CHOOSE i \in 1..Len(StageOrder) : StageOrder[i] = stage

IsStage(stage) == \E i \in 1..Len(StageOrder) : StageOrder[i] = stage

\* the stages entered through RetryWithContext
Retried == {"thumb", "video", "subtitle", "embed", "audio"}

\* the external invocations of a stage, as slog names them
ToolsOf(stage) ==
    CASE stage = "thumb" -> {"thumbnail"}
      [] stage = "video" -> {"accel", "direct"}
      [] stage = "subtitle" -> {"list-subs", "subtitle"}
      [] stage = "embed" -> {"embed"}
      [] stage = "audio" -> {"audio"}
      [] stage = "probe" -> {"ffprobe"}
      [] stage = "fallback" -> {"extract-thumbnail"}
      [] OTHER -> {}

\* C20: within one run the stages start in the order thumbnail fetch,
\* primary video, subtitle fetch, subtitle embedding, audio extraction,
\* duration probe, thumbnail fallback (only the embedding can be skipped);
\* every external invocation belongs to the stage the run is in; and a stage
\* is left only when all its attempts are over: it succeeded, was cancelled,
\* or failed MaxRetries+1 times.
C20_StagesInOrder ==
    [][/\ (dpc' # dpc /\ dpc = "idle") => dpc' \in {"thumb", "returned"}
       /\ (dpc' # dpc /\ IsStage(dpc) /\ IsStage(dpc'))
             => \/ Pos(dpc') = Pos(dpc) + 1
                \/ dpc = "subtitle" /\ dpc' = "audio"
       /\ (dpc' # dpc /\ dpc' = "returned" /\ IsStage(dpc))
             => dpc \in {"video", "fallback"}
       /\ (dpc' # dpc /\ dpc \in Retried)
             => /\ retryResult.kind \in {"ok", "maxretries", "cancelled"}
                /\ retryResult.kind = "maxretries"
                      => calls = options.MaxRetries + 1
       /\ Len(slog') > Len(slog)
             => slog'[Len(slog')].tool \in ToolsOf(dpc)]_vars

C20_Witness ==
    /\ dpc = "returned"
    /\ ret.kind = "bundle"
    /\ "thumb" \in failed
    /\ options.MaxRetries = MaxRetriesBound
    /\ result.VideoWithSubPath # ""
    /\ result.AudioPath # ""
    /\ result.Duration = 1
    /\ result.ThumbnailPath # ""

(***************************************************************************)
(* The disabled rate limiter: NewRateLimiter(false, ...) with or without a *)
(* distributed store, Allow calls by any identifiers, and the clock.       *)
(***************************************************************************)
InitDisabled ==
    /\ InitRateVars
    /\ ~rl.enabled
    /\ InitMemVars /\ InitRedisVars
    /\ IdleRetry /\ IdleDl /\ InitCleanVars
    /\ InitHandlerVars

NextDisabled ==
    \/ \E id \in Ids : Allow(id)
    \/ \E c \in Callers, id \in Ids : RedisBegin(c, id)
    \/ Tick

SpecDisabled == InitDisabled /\ [][NextDisabled]_vars

\* C21: when the rate limiter is disabled, every Allow call returns
\* (true, nil), whatever the identifier and the calls before it, and neither
\* the in-process counter map nor the distributed store changes.
C21_DisabledAllowsWithoutEffect ==
    ~rl.enabled =>
        /\ lastAllow # NoCall => lastAllow.res = TRUE
        /\ \A c \in Callers :
              cres[c].key # "none"
                  => /\ cres[c].ret = "true" /\ cres[c].err = FALSE
                     /\ cpc[c] = "idle"
        /\ counters = [key \in Keys |-> NoCounter]
        /\ zset = [key \in Keys |-> {}]
        /\ ttl = [key \in Keys |-> NoTTL]

C21_Witness ==
    /\ ~rl.enabled
    /\ rl.requestsMax = 0
    /\ \/ /\ ~rl.redis
          /\ lastAllow # NoCall /\ lastAllow.key = "u2" /\ lastAllow.t > 0
       \/ /\ rl.redis
          /\ \A c \in Callers : cres[c].key # "none" /\ cres[c].ret = "true"

\* C22: with userLimit = false, in-process mode, calls under any mix of
\* identifiers are counted by the single counter "global": the k-th call
\* since that counter was created or reset, made within its window, returns
\* true exactly when k <= requestsMax, and no per-identifier counter exists.
C22_SharedCounterAdmitsFirstMax ==
    (lastAllow # NoCall /\ rl.enabled /\ ~rl.redis /\ ~rl.userLimit)
        => /\ lastAllow.key = "global"
           /\ \A id \in Ids : counters[id] = NoCounter
           /\ lastAllow.res = (lastAllow.k <= rl.requestsMax)

\* the invocations of a tool that slog holds
Invocations(log, tool) ==
    Cardinality({i \in 1..Len(log) : log[i].tool = tool})

\* C23: every stage of a run goes through RetryWithContext with the run's
\* policy: when a stage is given up because its invocation kept failing (the
\* context not being cancelled), it has been attempted MaxRetries + 1 times;
\* this for the five stages from the thumbnail fetch to the audio extraction,
\* for the duration probe and for the thumbnail fallback.
C23_EveryStageRetried ==
    [][/\ (dpc' # dpc /\ dpc \in Retried /\ StageFailed /\ ~ctxDone)
             => calls = options.MaxRetries + 1
       /\ (dpc = "probe" /\ dpc' = "fallback" /\ "ffprobe" \in deps
             /\ "duration" \in failed')
             => Invocations(slog', "ffprobe") = options.MaxRetries + 1
       /\ (dpc = "fallback" /\ dpc' = "returned" /\ "ffmpeg" \in deps
             /\ "fallback" \in failed')
             => Invocations(slog', "extract-thumbnail")
                    = options.MaxRetries + 1]_vars

\* C24: every bundle Download returns has a video path; HasSubtitle is true
\* exactly when SubtitlePath is non-empty; VideoWithSubPath is non-empty only
\* if HasSubtitle is true; the embedding is entered only from a subtitle stage
\* that produced a subtitle file, and a failed embedding leaves the whole
\* result, VideoWithSubPath included, as it was.
C24_BundleFieldsConsistent ==
    /\ [](ret.kind = "bundle"
            => /\ ret.result.VideoPath # ""
               /\ ret.result.HasSubtitle <=> ret.result.SubtitlePath # ""
               /\ ret.result.VideoWithSubPath # "" => ret.result.HasSubtitle
               /\ "embed" \in failed => ret.result.VideoWithSubPath = "")
    /\ [][/\ (dpc # "embed" /\ dpc' = "embed")
                => /\ dpc = "subtitle" /\ ~StageFailed /\ subtitlePath # ""
                   /\ result'.HasSubtitle
                   /\ result'.SubtitlePath = subtitlePath
          /\ (dpc = "embed" /\ dpc' # "embed" /\ StageFailed)
                => result' = result /\ result.VideoWithSubPath = ""]_vars

C24_Witness ==
    /\ ret.kind = "bundle"
    /\ ret.result.HasSubtitle
    /\ ret.result.SubtitlePath # ""
    /\ "embed" \in failed
    /\ ret.result.VideoWithSubPath = ""

(***************************************************************************)
(* RateLimiter.allowMemory and CleanupExpiredCounters as the goroutines    *)
(* run them: rl.mu.Lock(), the read of the clock and of the counter, the   *)
(* decision with its write, and the deferred rl.mu.Unlock() are steps of   *)
(* their own, so that calls of several goroutines interleave wherever the  *)
(* mutex lets them.                                                        *)
(***************************************************************************)
LockIds == {"u1"}

MuFreeAlways == TRUE
\* part_001:559 and 588: rl.mu.Lock() returns only when no goroutine holds
\* the mutex
MuFree == mu = "free"

\* part_001:499-516: Allow is called and reaches rl.mu.Lock() (559)
AllowEnter(g, id) ==
    /\ gpc[g] = "idle"
    /\ rl.enabled /\ ~rl.redis
    /\ gpc' = [gpc EXCEPT ![g] = "lock"]
    /\ gloc' = [gloc EXCEPT ![g] = [NoLocals EXCEPT !.key = Identifier(id)]]
    /\ UNCHANGED <<counters, lastAllow, since, admits, mu, granted>>
    /\ UNCHANGED <<rateVars, retryVars, redisVars, dlVars, cleanVars, handlerVars>>

\* part_001:559
MuLock(g) ==
    /\ gpc[g] = "lock"
    /\ MuFree
    /\ mu' = g
    /\ gpc' = [gpc EXCEPT ![g] = "locked"]
    /\ UNCHANGED <<counters, lastAllow, since, admits, gloc, granted>>
    /\ UNCHANGED <<rateVars, retryVars, redisVars, dlVars, cleanVars, handlerVars>>

\* part_001:562-563: now := time.Now(); c, exists := rl.counters[identifier]
ReadCounter(g) ==
    /\ gpc[g] = "locked"
    /\ gloc' = [gloc EXCEPT ![g].t = now, ![g].c = counters[gloc[g].key]]
    /\ gpc' = [gpc EXCEPT ![g] = "decide"]
    /\ UNCHANGED <<counters, lastAllow, since, admits, mu, granted>>
    /\ UNCHANGED <<rateVars, retryVars, redisVars, dlVars, cleanVars, handlerVars>>

\* part_001:566-583: the decision on the counter read, and the write of the
\* counter where the call is admitted
Decide(g) ==
    /\ gpc[g] = "decide"
    /\ LET key == gloc[g].key
           r == allowMemory(gloc[g].c, gloc[g].t)
           reset == gloc[g].c = NoCounter \/ WindowPassed(gloc[g].t, gloc[g].c)
       IN  /\ counters' = IF r.ok THEN [counters EXCEPT ![key] = r.c]
                          ELSE counters
           /\ granted' = IF ~r.ok THEN granted
                         ELSE IF reset THEN [granted EXCEPT ![key] = 1]
                         ELSE [granted EXCEPT ![key] = @ + 1]
           /\ gloc' = [gloc EXCEPT ![g].res = r.ok]
    /\ gpc' = [gpc EXCEPT ![g] = "unlock"]
    /\ UNCHANGED <<lastAllow, since, admits, mu>>
    /\ UNCHANGED <<rateVars, retryVars, redisVars, dlVars, cleanVars, handlerVars>>

\* part_001:560: the deferred rl.mu.Unlock(), as allowMemory returns
MuUnlock(g) ==
    /\ gpc[g] = "unlock"
    /\ mu' = "free"
    /\ gpc' = [gpc EXCEPT ![g] = "idle"]
    /\ UNCHANGED <<counters, lastAllow, since, admits, gloc, granted>>
    /\ UNCHANGED <<rateVars, retryVars, redisVars, dlVars, cleanVars, handlerVars>>

\* part_001:587-597: the sweep holds rl.mu from its first to its last step
LockedCleanup ==
    /\ rl.enabled /\ ~rl.redis
    /\ MuFree
    /\ counters' = WithoutExpired(counters, now)
    /\ counters' # counters
    /\ granted' = [key \in Keys |->
                      IF counters'[key] = NoCounter THEN 0 ELSE granted[key]]
    /\ UNCHANGED <<lastAllow, since, admits, mu, gpc, gloc>>
    /\ UNCHANGED <<rateVars, retryVars, redisVars, dlVars, cleanVars, handlerVars>>

InitLocked ==
    /\ InitRateVars
    /\ rl.enabled /\ ~rl.redis
    /\ InitMemVars /\ InitRedisVars
    /\ IdleRetry /\ IdleDl /\ InitCleanVars
    /\ InitHandlerVars

NextLocked ==
    \/ \E g \in Callers, id \in LockIds : AllowEnter(g, id)
    \/ \E g \in Callers : MuLock(g)
    \/ \E g \in Callers : ReadCounter(g)
    \/ \E g \in Callers : Decide(g)
    \/ \E g \in Callers : MuUnlock(g)
    \/ LockedCleanup
    \/ Tick

SpecLocked == InitLocked /\ [][NextLocked]_vars

\* a goroutine is between rl.mu.Lock() and rl.mu.Unlock()
InCriticalSection(g) == gpc[g] \in {"locked", "decide", "unlock"}

\* C25: with goroutines calling Allow concurrently for one identifier in
\* in-process mode and requestsMax >= 1, no two goroutines are between the
\* lock and the unlock at once, the counter's count is the number of calls
\* admitted since the counter was created or reset (no increment is lost),
\* and that number never exceeds requestsMax.
C25_CounterStepsDoNotInterleave ==
    rl.requestsMax >= 1 =>
        /\ \A g1, g2 \in Callers :
              (g1 # g2 /\ InCriticalSection(g1)) => ~InCriticalSection(g2)
        /\ \A g \in Callers : InCriticalSection(g) <=> mu = g
        /\ \A key \in Keys :
              /\ counters[key].count = granted[key]
              /\ granted[key] <= rl.requestsMax

C25_Witness ==
    /\ rl.requestsMax = MaxRequestsMax
    /\ mu = "c1" /\ gpc["c1"] = "unlock" /\ gloc["c1"].res = FALSE
    /\ gloc["c1"].t > gloc["c1"].c.timestamp
    /\ gpc["c2"] = "lock"
    /\ gloc["c2"].key = gloc["c1"].key
    /\ granted[gloc["c1"].key] = MaxRequestsMax

(***************************************************************************)
(* Runs started by handleText, each in a goroutine of its own, with the    *)
(* clock that names their directories.                                     *)
(***************************************************************************)
RunIds == {"r1", "r2"}

NextRuns ==
    \/ \E r \in RunIds, chat \in Ids : handleText(r, chat)
    \/ \E r \in RunIds : processDownload(r)
    \/ \E r \in RunIds : DownloadReturned(r)
    \/ \E r \in RunIds : FilesSent(r)
    \/ Tick

SpecRuns == InitHandler /\ [][NextRuns]_vars

\* C26: any two runs, concurrent ones included, have different run
\* directories, so no run writes into the directory of another run.
C26_RunDirectoriesDistinct ==
    \A r1, r2 \in ReqIds :
        (r1 # r2 /\ downloadPath[r1] # NoPath)
            => downloadPath[r1] # downloadPath[r2]

(***************************************************************************)
(* The two backends side by side: one limiter without and one with a       *)
(* distributed store, built with the same requestsMax, timeWindow and      *)
(* userLimit, receive the same Allow calls at the same times, one call     *)
(* after the other, and no backend call fails.  counters is the state of   *)
(* the first, zset and ttl that of the second.                             *)
(***************************************************************************)
\* part_001:519-555 with every backend call succeeding: the decision of
\* allowRedis at time t on a key whose set is members, and the set it leaves
allowRedis(members, t) ==
    LET pruned == ZRemRangeByScore(members, Unix(t) - rl.timeWindow)
    IN  IF Cardinality(pruned) >= rl.requestsMax
        THEN [ok |-> FALSE, z |-> pruned]
        ELSE [ok |-> TRUE, z |-> pruned \cup {Unix(t)}]

\* part_001:499-516 on both limiters
AllowBoth(id) ==
    /\ rl.enabled
    /\ LET key == Identifier(id)
           r == allowMemory(counters[key], now)
           d == allowRedis(zset[key], now)
           z == [zset EXCEPT ![key] = d.z]
       IN  /\ counters' = [counters EXCEPT ![key] = r.c]
           /\ lastAllow' = [key |-> key, t |-> now, res |-> r.ok,
                            pre |-> counters[key], post |-> r.c, k |-> 0]
           /\ zset' = z
           /\ ttl' = IF d.ok
                     THEN [ttl EXCEPT ![key] = now + WindowTicks]
                     ELSE Normal(z, ttl)
           /\ cres' = [cres EXCEPT !["c1"] =
                         [key |-> key, ret |-> IF d.ok THEN "true" ELSE "false",
                          err |-> FALSE, failed |-> {}, logged |-> {},
                          count |-> Cardinality(
                              ZRemRangeByScore(zset[key],
                                               Unix(now) - rl.timeWindow)),
                          counted |-> ZRemRangeByScore(zset[key],
                                          Unix(now) - rl.timeWindow)]]
    /\ UNCHANGED <<since, admits, mu, gpc, gloc, granted, cpc, cloc>>
    /\ UNCHANGED <<rateVars, retryVars, dlVars, cleanVars, handlerVars>>

InitBoth ==
    /\ InitRateVars
    /\ rl.enabled /\ ~rl.redis
    /\ InitMemVars /\ InitRedisVars
    /\ IdleRetry /\ IdleDl /\ InitCleanVars
    /\ InitHandlerVars

NextBoth ==
    \/ \E id \in LockIds : AllowBoth(id)
    \/ Tick

SpecBoth == InitBoth /\ [][NextBoth]_vars

\* C27: for the same requestsMax and window and the same timed sequence of
\* sequential Allow calls on one identifier, with no backend failure, the
\* in-process and the distributed backend give every call the same decision.
C27_BackendsAgree ==
    (lastAllow # NoCall /\ cres["c1"].key # "none")
        => lastAllow.res = (cres["c1"].ret = "true")

(***************************************************************************)
(* The life of the run directories when everything that is scheduled does  *)
(* happen: the clock advances, every run returns, the delayed cleanup of   *)
(* processDownload (command.go:1145-1167) fires, the hourly sweep of main  *)
(* (unnamed/part_004:169-178) keeps running, and no file-system call of    *)
(* the sweep fails.                                                        *)
(***************************************************************************)
\* the last sweep met no error
NoSweepFault ==
    sweep # NoSweep
        => sweep.readOk /\ \A d \in DirNames : sweep.fault[d] = "none"

SweepWithoutFault ==
    \E maxAge \in 0..MaxAgeBound : CleanupDownloads(maxAge) /\ NoSweepFault'

NextCleanupFair ==
    \/ \E d \in DirNames : MkRunDir(d)
    \/ \E d \in DirNames : WriteFile(d)
    \/ \E d \in DirNames : RunEnds(d)
    \/ \E d \in DirNames : RemoveFile(d)
    \/ \E d \in DirNames : RemoveRunDir(d)
    \/ SweepWithoutFault
    \/ Tick

SpecCleanupFair ==
    /\ InitCleanup
    /\ [][NextCleanupFair]_vars
    /\ WF_vars(Tick)
    /\ WF_vars(SweepWithoutFault)
    /\ \A d \in DirNames :
          /\ WF_vars(RunEnds(d))
          /\ WF_vars(RemoveFile(d))
          /\ WF_vars(RemoveRunDir(d))

\* the run that made d is over, and d is older than every retention window
\* by the time the clock stops
EndedAndOld(d) ==
    /\ run[d] \in {"bundle", "error"}
    /\ dirs[d].exists
    /\ dirs[d].mtime < MaxTime - MaxAgeBound

\* C28: every run directory created by Download is eventually deleted after
\* the run has ended, whether the run returned a bundle or an error and
\* whether or not the directory still holds artifact files.
C28_RunDirEventuallyDeleted ==
    \A d \in DirNames : EndedAndOld(d) ~> ~dirs[d].exists

\* the statuses a request's document goes through, in order
StatusRank(status) ==
    CASE status = "none" -> 0
      [] status = "pending" -> 1
      [] status = "processing" -> 2
      [] status \in {"completed", "failed"} -> 3

\* C29: a request's status only moves pending -> processing -> completed or
\* pending -> processing -> failed: it is processing before Download starts,
\* becomes completed only after a bundle and failed only after an error, and
\* never changes once it is completed or failed.
C29_StatusFollowsLifecycle ==
    [][\A r \in ReqIds :
          /\ requests'[r].status # requests[r].status
                => StatusRank(requests'[r].status)
                       = StatusRank(requests[r].status) + 1
          /\ hpc'[r] = "download" => requests'[r].status = "processing"
          /\ (requests'[r].status = "completed"
                /\ requests[r].status # "completed") => hpc'[r] = "sending"
          /\ (requests'[r].status = "failed"
                /\ requests[r].status # "failed") => hpc'[r] = "failed"]_vars

\* the decisions of the next in-process Allow calls on counter c, one call
\* at each of the times ts, in order
RECURSIVE Decisions(_, _)
Decisions(c, ts) ==
    IF ts = <<>> THEN <<>>
    ELSE LET r == allowMemory(c, Head(ts))
         IN  <<r.ok>> \o Decisions(r.c, Tail(ts))

\* the non-decreasing sequences of at most MaxLater times from t on
LaterTimes(t) ==
    {ts \in UNION {[1..n -> t..MaxTime] : n \in 0..MaxLater} :
        \A i \in 1..Len(ts) - 1 : ts[i] <= ts[i + 1]}

\* C30: a CleanupExpiredCounters step between in-process Allow calls removes
\* exactly the counters whose window has elapsed, leaves every other counter
\* as it was, and changes the result of no later Allow call: whatever the
\* times of the later calls on a key, their decisions are those they would
\* have had without the sweep.
C30_CleanupChangesNoLaterResult ==
    [][(counters' # counters /\ lastAllow' = lastAllow)
          => \A key \in Keys :
                /\ counters'[key] = IF counters[key] # NoCounter
                                          /\ WindowPassed(now, counters[key])
                                     THEN NoCounter
                                     ELSE counters[key]
                /\ \A ts \in LaterTimes(now) :
                      Decisions(counters'[key], ts)
                          = Decisions(counters[key], ts)]_vars

\* an expired counter at its limit has been swept, and the next call on its
\* key, which the limit would have denied within the window, is admitted
C30_Witness ==
    /\ rl.enabled /\ ~rl.redis /\ rl.requestsMax >= 1
    /\ lastAllow # NoCall
    /\ lastAllow.pre = NoCounter
    /\ lastAllow.res = TRUE
    /\ lastAllow.t > 0
    /\ since[lastAllow.key] = 1
    /\ \E i \in 1..Len(admits[lastAllow.key]) :
          admits[lastAllow.key][i] < lastAllow.t

====
